---- MODULE Spec2Model ----
(***************************************************************************)
(* Response normalizers and resource services of the tourism front-end:    *)
(* homestays (src/unnamed/part_001), guides (guides.service.ts) and        *)
(* products (products.service.ts).                                         *)
(*                                                                         *)
(* JavaScript values are records [t |-> <typeof tag>, s |-> <content>].    *)
(* A string's content is its text as a sequence of tokens; the tokens are  *)
(* cut so that every needle the code searches for ("unsplash.com",         *)
(* "error:", ...) is a whole number of tokens in every sample text, which  *)
(* makes String.prototype.includes the contiguous-subsequence test below.  *)
(***************************************************************************)
EXTENDS Integers, Sequences, FiniteSets

VARIABLES nKind, nRaw, nIndex, nOut,
          pc, call, resp, ret,
          pools, gets, nOther, nAgain, calls,
          sbValue, sbDefault, sbInternal, sbTyped, sbChanged, sbSearched, sbEvent

\* one direct normalizer call: its arguments and its outcome
normVars == <<nKind, nRaw, nIndex, nOut>>
\* one service call: its position, its operation, the response, the outcome
svcVars == <<pc, call, resp, ret>>
\* a later normalization of another record, and a second run of the first
repVars == <<nOther, nAgain>>
\* the SearchBar: its props, its state, and what its callbacks last received
sbVars == <<sbValue, sbDefault, sbInternal, sbTyped, sbChanged, sbSearched, sbEvent>>
vars == <<nKind, nRaw, nIndex, nOut, pc, call, resp, ret,
          pools, gets, nOther, nAgain, calls,
          sbValue, sbDefault, sbInternal, sbTyped, sbChanged, sbSearched, sbEvent>>

(***************************************************************************)
(* Bounds of the model.                                                    *)
(***************************************************************************)
\* longest image list / tagged list of a raw record
MaxLen == 2
\* largest batch index handed to a normalizer (indexes are 0..MaxIndex)
MaxIndex == 10
\* longest record list of a backend response
MaxBatch == 2

(***************************************************************************)
(* JavaScript values.                                                      *)
(***************************************************************************)
Str(s) == [t |-> "string", s |-> s]
Undefined == [t |-> "undefined", s |-> <<>>]
Null == [t |-> "null", s |-> <<>>]
\* a number; s holds its decimal digits
Num(s) == [t |-> "number", s |-> s]
\* the one-element array [s] of a string
ArrOf(s) == [t |-> "array", s |-> s]

\* A list entry: a value with its `item` property.  Reading `item` of a
\* string or a number yields undefined; of null it is a TypeError.
PlainEntry(s) == [t |-> "string", s |-> s, item |-> Undefined]
Wrapper(v) == [t |-> "object", s |-> <<>>, item |-> v]
NullEntry == [t |-> "null", s |-> <<>>, item |-> Undefined]

\* A list-valued field of a raw record: an array of entries, or absent, or
\* some value that is not an array.
ArrayField(v) == [t |-> "array", v |-> v]
AbsentField == [t |-> "undefined", v |-> <<>>]
NonListField == [t |-> "string", v |-> <<>>]

\* Array.isArray(f)
IsArray(f) == f.t = "array"

\* String.prototype.includes(needle) on token sequences
Includes(hay, needle) ==
    \E i \in 0..(Len(hay) - Len(needle)) :
        SubSeq(hay, i + 1, i + Len(needle)) = needle

\* `x` is falsy (!x)
Falsy(x) ==
    \/ x.t \in {"undefined", "null"}
    \/ x.t = "string" /\ x.s = <<>>
    \/ x.t = "number" /\ x.s = <<"0">>

\* img => typeof img === 'string' ? img : img.item
UnwrapItem(e) == IF e.t = "string" THEN Str(e.s) ELSE e.item

\* the property read img.item raises a TypeError on null and undefined
UnwrapThrows(e) == e.t \in {"null", "undefined"}

\* list.map(e => typeof e === 'string' ? e : e.item), when no entry throws
MapUnwrap(list) == [i \in 1..Len(list) |-> UnwrapItem(list[i])]

MapUnwrapThrows(list) == \E i \in 1..Len(list) : UnwrapThrows(list[i])

\* the literal 'error:'
ErrorMarker == <<"error", ":">>

\* a.includes('error:') for the value a: a substring test on a string, an
\* element test on an array
JsIncludes(a, needle) ==
    IF a.t = "string" THEN Includes(a.s, needle) ELSE a.s = needle

\* a.includes is callable only on strings and arrays
IncludesThrows(a) == a.t \notin {"string", "array"}

\* a => !a.includes('error:')
NotErrorEntry(a) == ~JsIncludes(a, ErrorMarker)

\* Array.isArray(f) ? f.map(unwrap).filter(a => !a.includes('error:')) : []
FlattenTagged(f) ==
    IF IsArray(f) THEN SelectSeq(MapUnwrap(f.v), NotErrorEntry) ELSE <<>>

FlattenTaggedThrows(f) ==
    /\ IsArray(f)
    /\ \/ MapUnwrapThrows(f.v)
       \/ \E i \in 1..Len(f.v) : IncludesThrows(UnwrapItem(f.v[i]))

\* String(raw.id): a string is itself, a number its digits, undefined and
\* null their names, the array [s] its only element
ToString(v) ==
    CASE v.t = "undefined" -> Str(<<"undefined">>)
      [] v.t = "null" -> Str(<<"null">>)
      [] OTHER -> Str(v.s)

\* The outcome of a call: a returned value or a raised TypeError.
Return(v) == [threw |-> FALSE, value |-> v]
TypeError == [threw |-> TRUE, value |-> [t |-> "TypeError"]]
NotYet == [threw |-> FALSE, value |-> [t |-> "pending"]]

(***************************************************************************)
(* Homestays: src/unnamed/part_001                                         *)
(***************************************************************************)
HomestayPhoto(p) ==
    Str(<<"https://", "images.", "unsplash", ".com", p, "?w=800&h=600&fit=crop">>)

HOMESTAY_PLACEHOLDER_IMAGES ==
    << HomestayPhoto("/photo-1518780664697-55e3ad937233"),
       HomestayPhoto("/photo-1449824913935-59a10b8d2000"),
       HomestayPhoto("/photo-1464822759023-fed622ff2c3b"),
       HomestayPhoto("/photo-1587061949409-02df41d5e562"),
       HomestayPhoto("/photo-1600585154340-be6161a56a0c"),
       HomestayPhoto("/photo-1600596542815-ffad4c1539a9"),
       HomestayPhoto("/photo-1566073771259-6a8506099945"),
       HomestayPhoto("/photo-1512917774080-9991f1c4c750"),
       HomestayPhoto("/photo-1499793983690-e29da59ef1c2"),
       HomestayPhoto("/photo-1505916349660-8d91a99c3e23") >>

HomestayValidDomains ==
    << <<"unsplash", ".com">>, <<"pexels", ".com">>,
       <<"picsum", ".photos">>, <<"placehold", ".co">> >>

\* variant: validDomains without pexels.com
HomestayIsValidImageUrlNoPexels(url) ==
    /\ ~Falsy(url)
    /\ url.t = "string"
    /\ \E d \in {1, 3, 4} : Includes(url.s, HomestayValidDomains[d])

HomestayIsValidImageUrl(url) ==
    /\ ~Falsy(url)
    /\ url.t = "string"
    /\ \E d \in 1..Len(HomestayValidDomains) : Includes(url.s, HomestayValidDomains[d])

\* variant: the modulus one short of the pool length
HomestayGetPlaceholderImageShortCycle(index) ==
    HOMESTAY_PLACEHOLDER_IMAGES[(index % (Len(HOMESTAY_PLACEHOLDER_IMAGES) - 1)) + 1]

HomestayGetPlaceholderImage(index) ==
    pools.homestay[(index % Len(pools.homestay)) + 1]

\* the tokens ['entire', 'private', 'shared']
PropertyTypeTokens == {<<"entire">>, <<"private">>, <<"shared">>}

\* variant: any string passes, only non-strings get the default
CoercePropertyTypeKeepAnyString(pt) ==
    IF pt.t = "string" THEN pt ELSE Str(<<"entire">>)

\* ['entire', 'private', 'shared'].includes(pt) ? pt : 'entire'
CoercePropertyType(pt) ==
    IF pt.t = "string" /\ pt.s \in PropertyTypeTokens THEN pt ELSE Str(<<"entire">>)

\* raw.images read and unwrapped (lines 75-77); a null entry raises
HomestayImagesThrows(raw) == IsArray(raw.images) /\ MapUnwrapThrows(raw.images.v)

\* lines 75-83: rawImages, validImages, images
HomestayImages(raw, index) ==
    LET rawImages == IF IsArray(raw.images) THEN MapUnwrap(raw.images.v) ELSE <<>>
        validImages == SelectSeq(rawImages, HomestayIsValidImageUrl)
    IN  IF Len(validImages) > 0
        THEN validImages
        ELSE <<HomestayGetPlaceholderImage(index), HomestayGetPlaceholderImage(index + 1)>>

\* The scalar fields the normalizer copies without reading (title, price,
\* capacity, ...) are left out of the records.
normalizeHomestay(raw, index) ==
    IF \/ HomestayImagesThrows(raw)
       \/ FlattenTaggedThrows(raw.amenities)
       \/ FlattenTaggedThrows(raw.houseRules)
    THEN TypeError
    ELSE Return([id |-> ToString(raw.id),
                 images |-> HomestayImages(raw, index),
                 amenities |-> FlattenTagged(raw.amenities),
                 propertyType |-> CoercePropertyType(raw.propertyType),
                 houseRules |-> FlattenTagged(raw.houseRules)])

(***************************************************************************)
(* Guides: src/src/services/guides.service.ts                              *)
(***************************************************************************)
GuidePhoto(p) ==
    Str(<<"https://", "images.", "unsplash", ".com", p, "?w=200&h=200&fit=crop&crop=face">>)

GUIDE_PLACEHOLDER_AVATARS ==
    << GuidePhoto("/photo-1507003211169-0a1dd7228f2d"),
       GuidePhoto("/photo-1500648767791-00dcc994a43e"),
       GuidePhoto("/photo-1472099645785-5658abf4ff4e"),
       GuidePhoto("/photo-1438761681033-6461ffad8d80"),
       GuidePhoto("/photo-1544005313-94ddf0286df2"),
       GuidePhoto("/photo-1506794778202-cad84cf45f1d") >>

GuideValidDomains ==
    << <<"unsplash", ".com">>, <<"pexels", ".com">>,
       <<"picsum", ".photos">>, <<"placehold", ".co">>, <<"randomuser", ".me">> >>

GuideIsValidImageUrl(url) ==
    /\ ~Falsy(url)
    /\ url.t = "string"
    /\ \E d \in 1..Len(GuideValidDomains) : Includes(url.s, GuideValidDomains[d])

\* variant: the placeholder ignores the index
GuideAvatarAlwaysFirst(raw, index) ==
    IF GuideIsValidImageUrl(raw.avatar)
    THEN raw.avatar
    ELSE GUIDE_PLACEHOLDER_AVATARS[1]

\* lines 58-60
GuideAvatar(raw, index) ==
    IF GuideIsValidImageUrl(raw.avatar)
    THEN raw.avatar
    ELSE pools.guide[(index % Len(pools.guide)) + 1]

\* raw.tours || []
GuideTours(raw) == IF raw.tours.t = "undefined" THEN ArrayField(<<>>) ELSE raw.tours

normalizeGuide(raw, index) ==
    IF \/ FlattenTaggedThrows(raw.languages)
       \/ FlattenTaggedThrows(raw.specializations)
    THEN TypeError
    ELSE Return([id |-> ToString(raw.id),
                 avatar |-> GuideAvatar(raw, index),
                 languages |-> FlattenTagged(raw.languages),
                 specializations |-> FlattenTagged(raw.specializations),
                 tours |-> GuideTours(raw)])

(***************************************************************************)
(* Products: src/src/services/products.service.ts                          *)
(***************************************************************************)
ProductPhoto(p) ==
    Str(<<"https://", "images.", "unsplash", ".com", p, "?w=800&h=600&fit=crop">>)

PRODUCT_PLACEHOLDER_IMAGES ==
    << ProductPhoto("/photo-1606722590583-6951b5ea92ad"),
       ProductPhoto("/photo-1513519245088-0e12902e35a6"),
       ProductPhoto("/photo-1590736969955-71cc94801759"),
       ProductPhoto("/photo-1617806118233-18e1de247200"),
       ProductPhoto("/photo-1558618666-fcd25c85cd64"),
       ProductPhoto("/photo-1596462502278-27bfdc403348"),
       ProductPhoto("/photo-1582562124811-c09040d0a901"),
       ProductPhoto("/photo-1518709268805-4e9042af9f23") >>

ProductValidDomains ==
    << <<"unsplash", ".com">>, <<"pexels", ".com">>,
       <<"picsum", ".photos">>, <<"placehold", ".co">> >>

\* variant: every non-empty string passes
ProductIsValidImageUrlAnyString(url) == ~Falsy(url) /\ url.t = "string"

ProductIsValidImageUrl(url) ==
    /\ ~Falsy(url)
    /\ url.t = "string"
    /\ \E d \in 1..Len(ProductValidDomains) : Includes(url.s, ProductValidDomains[d])

ProductGetPlaceholderImage(index) ==
    pools.product[(index % Len(pools.product)) + 1]

ProductImagesThrows(raw) == IsArray(raw.images) /\ MapUnwrapThrows(raw.images.v)

\* lines 64-71: rawImages, validImages, images
ProductImages(raw, index) ==
    LET rawImages == IF IsArray(raw.images) THEN MapUnwrap(raw.images.v) ELSE <<>>
        validImages == SelectSeq(rawImages, ProductIsValidImageUrl)
    IN  IF Len(validImages) > 0
        THEN validImages
        ELSE <<ProductGetPlaceholderImage(index), ProductGetPlaceholderImage(index + 1)>>

normalizeProduct(raw, index) ==
    IF \/ ProductImagesThrows(raw)
       \/ FlattenTaggedThrows(raw.materials)
    THEN TypeError
    ELSE Return([id |-> ToString(raw.id),
                 images |-> ProductImages(raw, index),
                 materials |-> FlattenTagged(raw.materials)])

(***************************************************************************)
(* Raw records the backend may send.                                       *)
(***************************************************************************)
UrlUnsplash == <<"https://", "images.", "unsplash", ".com", "/a.jpg">>
UrlPexels == <<"https://", "www.", "pexels", ".com", "/b.jpg">>
UrlPicsum == <<"https://", "picsum", ".photos", "/200">>
UrlPlacehold == <<"https://", "placehold", ".co", "/600x400">>
UrlRandomUser == <<"https://", "randomuser", ".me", "/api/portraits/1.jpg">>
UrlBadHost == <<"bad-host", ".com", "/x.jpg">>

\* all sequences over S of length at most n
SeqsUpTo(S, n) == UNION {[1..k -> S] : k \in 0..n}

ImageEntries ==
    { PlainEntry(UrlUnsplash), Wrapper(Str(UrlPexels)), PlainEntry(UrlPicsum),
      Wrapper(Str(UrlPlacehold)), PlainEntry(UrlBadHost), Wrapper(Str(UrlRandomUser)),
      Wrapper(Undefined), NullEntry }

TaggedEntries ==
    { PlainEntry(<<"wifi">>), Wrapper(Str(<<"parking">>)),
      PlainEntry(<<"error", ":", " timeout">>), Wrapper(Str(<<"error", ":", " n/a">>)),
      PlainEntry(<<"error", " :">>),
      Wrapper(Undefined), Wrapper(ArrOf(<<"wifi">>)), NullEntry }

ImageFields ==
    {ArrayField(l) : l \in SeqsUpTo(ImageEntries, MaxLen)} \cup {AbsentField, NonListField}

TaggedFields ==
    {ArrayField(l) : l \in SeqsUpTo(TaggedEntries, MaxLen)} \cup {AbsentField, NonListField}

\* the values the other fields take while one field ranges over all of its
CompanionImages == {ArrayField(<<PlainEntry(UrlUnsplash)>>), AbsentField}
CompanionTagged == {ArrayField(<<Wrapper(Str(<<"wifi">>))>>), AbsentField}

PropertyTypes ==
    { Str(<<"entire">>), Str(<<"private">>), Str(<<"shared">>), Str(<<"weird">>),
      Undefined, ArrOf(<<"private">>) }

Avatars ==
    { Str(UrlUnsplash), Str(UrlRandomUser), Str(UrlBadHost), Str(<<>>),
      Undefined, Null, Num(<<"5">>) }

Ids == {Num(<<"7">>), Str(<<"h1">>)}

HomestayRecs(ids, ims, ams, pts, hrs) ==
    { [id |-> i, images |-> im, amenities |-> am, propertyType |-> pt, houseRules |-> hr] :
        i \in ids, im \in ims, am \in ams, pt \in pts, hr \in hrs }

RawHomestays ==
    HomestayRecs({Num(<<"7">>)}, ImageFields, CompanionTagged, {Str(<<"private">>)}, CompanionTagged)
    \cup HomestayRecs({Num(<<"7">>)}, CompanionImages, TaggedFields, {Str(<<"weird">>)}, CompanionTagged)
    \cup HomestayRecs({Num(<<"7">>)}, CompanionImages, CompanionTagged, {Str(<<"shared">>)}, TaggedFields)
    \cup HomestayRecs(Ids, CompanionImages, CompanionTagged, PropertyTypes, CompanionTagged)

GuideRecs(ids, avs, las, sps, tos) ==
    { [id |-> i, avatar |-> av, languages |-> la, specializations |-> sp, tours |-> to] :
        i \in ids, av \in avs, la \in las, sp \in sps, to \in tos }

RawGuides ==
    GuideRecs(Ids, Avatars, CompanionTagged, CompanionTagged, {AbsentField, ArrayField(<<>>)})
    \cup GuideRecs({Num(<<"7">>)}, {Undefined, Str(UrlRandomUser)}, TaggedFields, CompanionTagged, {AbsentField})
    \cup GuideRecs({Num(<<"7">>)}, {Undefined, Str(UrlRandomUser)}, CompanionTagged, TaggedFields, {AbsentField})

ProductRecs(ids, ims, mas) ==
    { [id |-> i, images |-> im, materials |-> ma] : i \in ids, im \in ims, ma \in mas }

RawProducts ==
    ProductRecs(Ids, ImageFields, CompanionTagged)
    \cup ProductRecs({Num(<<"7">>)}, CompanionImages, TaggedFields)

(***************************************************************************)
(* Resource services.  A response body is either a bare array (t =         *)
(* "array", its elements in v) or an envelope object {data, meta}.         *)
(***************************************************************************)
BareBody(list) == [t |-> "array", v |-> list, data |-> <<>>, meta |-> [t |-> "none"]]
EnvelopeBody(list, m) == [t |-> "object", v |-> <<>>, data |-> list, meta |-> m]
NoBody == [t |-> "none", v |-> <<>>, data |-> <<>>, meta |-> [t |-> "none"]]

\* Array.isArray(response.data) ? response.data : response.data.data
RawData(body) == IF IsArray(body) THEN body.v ELSE body.data

\* variant: totalPages taken from the length
SynthMetaPagesFromLength(n) == [total |-> n, page |-> 1, limit |-> n, totalPages |-> n]

\* variant: page and totalPages taken from the length
SynthMetaAllFromLength(n) == [total |-> n, page |-> n, limit |-> n, totalPages |-> n]

\* { total: n, page: 1, limit: n, totalPages: 1 }
SynthMeta(n) == [total |-> n, page |-> 1, limit |-> n, totalPages |-> 1]

\* variant: every record normalized with index 0
HomestaysMapSameIndex(rawData) ==
    IF \E i \in 1..Len(rawData) : normalizeHomestay(rawData[i], 0).threw
    THEN TypeError
    ELSE Return([i \in 1..Len(rawData) |-> normalizeHomestay(rawData[i], 0).value])

\* rawData.map((item, index) => normalizeHomestay(item, index)); one raising
\* element makes the whole call raise
HomestaysMap(rawData) ==
    IF \E i \in 1..Len(rawData) : normalizeHomestay(rawData[i], i - 1).threw
    THEN TypeError
    ELSE Return([i \in 1..Len(rawData) |-> normalizeHomestay(rawData[i], i - 1).value])

GuidesMap(rawData) ==
    IF \E i \in 1..Len(rawData) : normalizeGuide(rawData[i], i - 1).threw
    THEN TypeError
    ELSE Return([i \in 1..Len(rawData) |-> normalizeGuide(rawData[i], i - 1).value])

ProductsMap(rawData) ==
    IF \E i \in 1..Len(rawData) : normalizeProduct(rawData[i], i - 1).threw
    THEN TypeError
    ELSE Return([i \in 1..Len(rawData) |-> normalizeProduct(rawData[i], i - 1).value])

\* variant: meta recomputed from the list for both shapes
ListEnvelopeRecomputed(body, mapped) ==
    IF mapped.threw
    THEN TypeError
    ELSE Return([data |-> mapped.value, meta |-> SynthMeta(Len(mapped.value))])

\* the object literal getAll returns, given the outcome of the map
ListEnvelope(body, mapped) ==
    IF mapped.threw
    THEN TypeError
    ELSE Return([data |-> mapped.value,
                 meta |-> IF IsArray(body) THEN SynthMeta(Len(mapped.value)) ELSE body.meta])

homestaysGetAll(body) == ListEnvelope(body, HomestaysMap(RawData(body)))
homestaysGetFeatured(body) == HomestaysMap(RawData(body))

guidesGetAll(body) == ListEnvelope(body, GuidesMap(RawData(body)))
guidesGetFeatured(body) == GuidesMap(RawData(body))

productsGetAll(body) == ListEnvelope(body, ProductsMap(RawData(body)))
productsGetFeatured(body) == ProductsMap(RawData(body))
productsGetByCategory(body) == ProductsMap(RawData(body))

\* A getById body: the raw record itself (self), or an object holding the
\* record, or null, under `data`; read as a raw record such an object has
\* none of the record's fields (empty).
NullRecord == [t |-> "null"]
BareRecordBody(r) == [t |-> "object", hasData |-> FALSE, data |-> [t |-> "undefined"], self |-> r]
WrappedRecordBody(d, empty) == [t |-> "object", hasData |-> TRUE, data |-> d, self |-> empty]

\* variant: the body is always taken as the record
ByIdRawDataNeverUnwraps(body) == body.self

\* 'data' in response.data && response.data.data ? response.data.data : response.data
ByIdRawData(body) ==
    IF body.hasData /\ body.data # NullRecord THEN body.data ELSE body.self

\* normalizeHomestay(rawData): the index parameter takes its default, 0
homestaysGetById(body) == normalizeHomestay(ByIdRawData(body), 0)
guidesGetById(body) == normalizeGuide(ByIdRawData(body), 0)
productsGetById(body) == normalizeProduct(ByIdRawData(body), 0)

\* { total: n, page: 1, limit: n, totalPages: 1 } of getReviews
ReviewsMeta(n) == [total |-> n, page |-> 1, limit |-> n, totalPages |-> 1]

\* variant: the envelope is rebuilt around its list
GetReviewsResultRebuilt(body) ==
    IF IsArray(body)
    THEN Return([data |-> body.v, meta |-> ReviewsMeta(Len(body.v))])
    ELSE Return(EnvelopeBody(body.data, ReviewsMeta(Len(body.data))))

\* if (Array.isArray(response.data)) return { data, meta }; return response.data
GetReviewsResult(body) ==
    IF IsArray(body)
    THEN Return([data |-> body.v, meta |-> ReviewsMeta(Len(body.v))])
    ELSE Return(body)

homestaysGetReviews(body) == GetReviewsResult(body)
guidesGetReviews(body) == GetReviewsResult(body)
productsGetReviews(body) == GetReviewsResult(body)

\* A request the transport fails: api.get rejects with an error value.
FailedResponse(e) ==
    [t |-> "error", v |-> <<>>, data |-> <<>>, meta |-> [t |-> "none"], err |-> e]

\* an awaited rejection is rethrown in the operation, which catches nothing:
\* its promise rejects with the same value
Rejection(e) == [threw |-> TRUE, value |-> e]

(***************************************************************************)
(* Backend responses.                                                      *)
(***************************************************************************)
SampleHomestays ==
    { [id |-> Num(<<"1">>), images |-> ArrayField(<<PlainEntry(UrlUnsplash)>>),
       amenities |-> ArrayField(<<PlainEntry(<<"wifi">>), Wrapper(Str(<<"parking">>))>>),
       propertyType |-> Str(<<"private">>), houseRules |-> AbsentField],
      [id |-> Num(<<"7">>), images |-> ArrayField(<<PlainEntry(UrlBadHost)>>),
       amenities |-> ArrayField(<<Wrapper(Str(<<"wifi">>)), Wrapper(Str(<<"error", ":", " n/a">>))>>),
       propertyType |-> Str(<<"weird">>), houseRules |-> ArrayField(<<>>)],
      [id |-> Str(<<"h3">>), images |-> AbsentField,
       amenities |-> AbsentField,
       propertyType |-> Undefined, houseRules |-> ArrayField(<<PlainEntry(<<"no smoking">>)>>)],
      [id |-> Num(<<"4">>), images |-> ArrayField(<<Wrapper(Str(UrlPexels))>>),
       amenities |-> ArrayField(<<Wrapper(Undefined)>>),
       propertyType |-> Str(<<"entire">>), houseRules |-> AbsentField] }

SampleGuides ==
    { [id |-> Num(<<"1">>), avatar |-> Str(UrlRandomUser),
       languages |-> ArrayField(<<PlainEntry(<<"Hindi">>), Wrapper(Str(<<"English">>))>>),
       specializations |-> AbsentField, tours |-> ArrayField(<<>>)],
      [id |-> Num(<<"2">>), avatar |-> Undefined,
       languages |-> ArrayField(<<Wrapper(Str(<<"error", ":", " n/a">>))>>),
       specializations |-> ArrayField(<<PlainEntry(<<"trekking">>)>>), tours |-> AbsentField],
      [id |-> Str(<<"g3">>), avatar |-> Str(UrlBadHost),
       languages |-> AbsentField,
       specializations |-> ArrayField(<<Wrapper(Str(<<"wildlife">>))>>), tours |-> AbsentField],
      [id |-> Num(<<"4">>), avatar |-> Undefined,
       languages |-> ArrayField(<<NullEntry>>),
       specializations |-> AbsentField, tours |-> AbsentField] }

SampleProducts ==
    { [id |-> Num(<<"1">>), images |-> ArrayField(<<Wrapper(Str(UrlPicsum)), PlainEntry(UrlBadHost)>>),
       materials |-> ArrayField(<<PlainEntry(<<"bamboo">>)>>)],
      [id |-> Num(<<"2">>), images |-> ArrayField(<<>>),
       materials |-> ArrayField(<<Wrapper(Str(<<"clay">>)), PlainEntry(<<"error", ":", " timeout">>)>>)],
      [id |-> Str(<<"p3">>), images |-> NonListField,
       materials |-> AbsentField],
      [id |-> Num(<<"4">>), images |-> AbsentField,
       materials |-> ArrayField(<<Wrapper(Undefined)>>)] }

SampleRecords(svc) ==
    CASE svc = "homestays" -> SampleHomestays
      [] svc = "guides" -> SampleGuides
      [] OTHER -> SampleProducts

\* pagination metadata the backend may send; it need not agree with the page
BackendMetas ==
    { [total |-> 25, page |-> 2, limit |-> 10, totalPages |-> 3],
      [total |-> 0, page |-> 1, limit |-> 4, totalPages |-> 0] }

ListBodies(svc) ==
    LET lists == SeqsUpTo(SampleRecords(svc), MaxBatch)
    IN  {BareBody(l) : l \in lists} \cup {EnvelopeBody(l, m) : l \in lists, m \in BackendMetas}

\* a response body read as a raw record: every field of the record is absent
EmptyRecord(svc) ==
    CASE svc = "homestays" ->
             [id |-> Undefined, images |-> AbsentField, amenities |-> AbsentField,
              propertyType |-> Undefined, houseRules |-> AbsentField]
      [] svc = "guides" ->
             [id |-> Undefined, avatar |-> Undefined, languages |-> AbsentField,
              specializations |-> AbsentField, tours |-> AbsentField]
      [] OTHER -> [id |-> Undefined, images |-> AbsentField, materials |-> AbsentField]

RecordBodies(svc) ==
    {BareRecordBody(r) : r \in SampleRecords(svc)}
    \cup {WrappedRecordBody(r, EmptyRecord(svc)) : r \in SampleRecords(svc)}
    \cup {WrappedRecordBody(NullRecord, EmptyRecord(svc))}

SampleReviews ==
    { [id |-> "r1", rating |-> 5, comment |-> <<"great stay">>],
      [id |-> "r2", rating |-> 2, comment |-> <<"error", ":", " n/a">>],
      [id |-> "r3", rating |-> 4, comment |-> <<>>] }

ReviewBodies ==
    LET lists == SeqsUpTo(SampleReviews, MaxBatch)
    IN  {BareBody(l) : l \in lists} \cup {EnvelopeBody(l, m) : l \in lists, m \in BackendMetas}

\* the bodies the backend may answer an operation with
Bodies(c) ==
    CASE c.op = "getById" -> RecordBodies(c.svc)
      [] c.op = "getReviews" -> ReviewBodies
      [] OTHER -> ListBodies(c.svc)

\* the failures of the transport: no connection, a non-success status
TransportErrors ==
    { [t |-> "NetworkError", status |-> 0], [t |-> "HttpError", status |-> 500] }

Operations ==
    { [svc |-> "homestays", op |-> "getAll"], [svc |-> "homestays", op |-> "getFeatured"],
      [svc |-> "guides", op |-> "getAll"], [svc |-> "guides", op |-> "getFeatured"],
      [svc |-> "products", op |-> "getAll"], [svc |-> "products", op |-> "getFeatured"],
      [svc |-> "products", op |-> "getByCategory"],
      [svc |-> "homestays", op |-> "getById"], [svc |-> "guides", op |-> "getById"],
      [svc |-> "products", op |-> "getById"],
      [svc |-> "homestays", op |-> "getReviews"], [svc |-> "guides", op |-> "getReviews"],
      [svc |-> "products", op |-> "getReviews"] }

\* what an operation returns once its request resolved with `body`
OpResult(c, body) ==
    CASE c = [svc |-> "homestays", op |-> "getAll"] -> homestaysGetAll(body)
      [] c = [svc |-> "homestays", op |-> "getById"] -> homestaysGetById(body)
      [] c = [svc |-> "homestays", op |-> "getReviews"] -> homestaysGetReviews(body)
      [] c = [svc |-> "homestays", op |-> "getFeatured"] -> homestaysGetFeatured(body)
      [] c = [svc |-> "guides", op |-> "getAll"] -> guidesGetAll(body)
      [] c = [svc |-> "guides", op |-> "getById"] -> guidesGetById(body)
      [] c = [svc |-> "guides", op |-> "getReviews"] -> guidesGetReviews(body)
      [] c = [svc |-> "guides", op |-> "getFeatured"] -> guidesGetFeatured(body)
      [] c = [svc |-> "products", op |-> "getAll"] -> productsGetAll(body)
      [] c = [svc |-> "products", op |-> "getById"] -> productsGetById(body)
      [] c = [svc |-> "products", op |-> "getReviews"] -> productsGetReviews(body)
      [] c = [svc |-> "products", op |-> "getFeatured"] -> productsGetFeatured(body)
      [] OTHER -> productsGetByCategory(body)

\* the calls that may be outstanding at once
NumCalls == 2
CallIds == 1..NumCalls
IdleCall == [pc |-> "idle", call |-> [svc |-> "none", op |-> "none"], resp |-> NoBody, ret |-> NotYet]

\* the texts a user may type into the SearchBar
Texts == {<<>>, <<"ranchi">>, <<"ranchi", " falls">>}
NoText == [t |-> "none", s |-> <<>>]

(***************************************************************************)
(* Spec: a caller invokes a service operation, the transport answers, the  *)
(* operation resumes after its await and returns.                          *)
(***************************************************************************)
SvcIdle ==
    /\ pc = "idle"
    /\ call = [svc |-> "none", op |-> "none"]
    /\ resp = NoBody
    /\ ret = NotYet
    /\ gets = 0

\* the module-level arrays as the modules define them
PoolsLoaded ==
    pools = [homestay |-> HOMESTAY_PLACEHOLDER_IMAGES,
             guide |-> GUIDE_PLACEHOLDER_AVATARS,
             product |-> PRODUCT_PLACEHOLDER_IMAGES]

RepIdle == nOther = NotYet /\ nAgain = NotYet

ParIdle == calls = [i \in CallIds |-> IdleCall]

\* no SearchBar is mounted
SbUnmounted ==
    /\ sbValue = NoText
    /\ sbDefault = NoText
    /\ sbInternal = NoText
    /\ sbTyped = NoText
    /\ sbChanged = NoText
    /\ sbSearched = NoText
    /\ sbEvent = "none"

\* what a service call leaves alone
restOfSvc == <<normVars, repVars, pools, calls, sbVars>>
\* what a direct normalizer call leaves alone
restOfNorm == <<svcVars, gets, pools, calls, sbVars>>

NormIdle ==
    /\ nKind = "none"
    /\ nRaw = [t |-> "none"]
    /\ nIndex = 0
    /\ nOut = NotYet

Init == SvcIdle /\ NormIdle /\ RepIdle /\ PoolsLoaded /\ ParIdle /\ SbUnmounted

\* the call up to its `await api.get(...)`
Invoke ==
    /\ pc = "idle"
    /\ \E c \in Operations : call' = c
    /\ pc' = "waiting"
    /\ resp' = NoBody
    /\ ret' = NotYet
    /\ gets' = gets + 1
    /\ UNCHANGED restOfSvc

\* the transport resolves the request with a response body
TransportReply ==
    /\ pc = "waiting"
    /\ \E b \in Bodies(call) : resp' = b
    /\ pc' = "replied"
    /\ UNCHANGED <<call, ret, gets, restOfSvc>>

\* the transport rejects the request
TransportFail ==
    /\ pc = "waiting"
    /\ \E e \in TransportErrors : resp' = FailedResponse(e)
    /\ pc' = "failed"
    /\ UNCHANGED <<call, ret, gets, restOfSvc>>

\* variant: the operation issues the request again
PropagateFailureRetries ==
    /\ pc = "failed"
    /\ gets < 3
    /\ pc' = "waiting"
    /\ resp' = NoBody
    /\ gets' = gets + 1
    /\ UNCHANGED <<call, ret, restOfSvc>>

\* the await rethrows; no operation has a try/catch, so its promise rejects
PropagateFailure ==
    /\ pc = "failed"
    /\ ret' = Rejection(resp.err)
    /\ pc' = "done"
    /\ UNCHANGED <<call, resp, gets, restOfSvc>>

Resume(c, result) ==
    /\ pc = "replied"
    /\ call = c
    /\ ret' = result
    /\ pc' = "done"
    /\ UNCHANGED <<call, resp, gets, restOfSvc>>

HomestaysGetAll ==
    Resume([svc |-> "homestays", op |-> "getAll"], homestaysGetAll(resp))

HomestaysGetFeatured ==
    Resume([svc |-> "homestays", op |-> "getFeatured"], homestaysGetFeatured(resp))

GuidesGetAll ==
    Resume([svc |-> "guides", op |-> "getAll"], guidesGetAll(resp))

GuidesGetFeatured ==
    Resume([svc |-> "guides", op |-> "getFeatured"], guidesGetFeatured(resp))

ProductsGetAll ==
    Resume([svc |-> "products", op |-> "getAll"], productsGetAll(resp))

ProductsGetFeatured ==
    Resume([svc |-> "products", op |-> "getFeatured"], productsGetFeatured(resp))

ProductsGetByCategory ==
    Resume([svc |-> "products", op |-> "getByCategory"], productsGetByCategory(resp))

HomestaysGetById ==
    Resume([svc |-> "homestays", op |-> "getById"], homestaysGetById(resp))

GuidesGetById ==
    Resume([svc |-> "guides", op |-> "getById"], guidesGetById(resp))

ProductsGetById ==
    Resume([svc |-> "products", op |-> "getById"], productsGetById(resp))

HomestaysGetReviews ==
    Resume([svc |-> "homestays", op |-> "getReviews"], homestaysGetReviews(resp))

GuidesGetReviews ==
    Resume([svc |-> "guides", op |-> "getReviews"], guidesGetReviews(resp))

ProductsGetReviews ==
    Resume([svc |-> "products", op |-> "getReviews"], productsGetReviews(resp))

\* the caller takes the settled promise; the service keeps nothing
Settle ==
    /\ pc = "done"
    /\ pc' = "idle"
    /\ call' = [svc |-> "none", op |-> "none"]
    /\ resp' = NoBody
    /\ ret' = NotYet
    /\ gets' = 0
    /\ UNCHANGED restOfSvc

Next ==
    \/ Invoke
    \/ TransportReply
    \/ HomestaysGetAll
    \/ HomestaysGetFeatured
    \/ GuidesGetAll
    \/ GuidesGetFeatured
    \/ ProductsGetAll
    \/ ProductsGetFeatured
    \/ ProductsGetByCategory
    \/ HomestaysGetById
    \/ GuidesGetById
    \/ ProductsGetById
    \/ HomestaysGetReviews
    \/ GuidesGetReviews
    \/ ProductsGetReviews
    \/ TransportFail
    \/ PropagateFailure
    \/ Settle

Spec == Init /\ [][Next]_vars

(***************************************************************************)
(* SpecNorm: one normalizer call on a raw record at a batch index.         *)
(***************************************************************************)
InitNorm ==
    /\ nKind \in {"homestay", "guide", "product"}
    /\ nRaw \in CASE nKind = "homestay" -> RawHomestays
                  [] nKind = "guide" -> RawGuides
                  [] OTHER -> RawProducts
    /\ nIndex \in 0..MaxIndex
    /\ nOut = NotYet
    /\ SvcIdle /\ RepIdle /\ PoolsLoaded /\ ParIdle /\ SbUnmounted

NormalizeHomestayCall ==
    /\ nKind = "homestay"
    /\ nOut = NotYet
    /\ nOut' = normalizeHomestay(nRaw, nIndex)
    /\ UNCHANGED <<nKind, nRaw, nIndex, repVars, restOfNorm>>

NormalizeGuideCall ==
    /\ nKind = "guide"
    /\ nOut = NotYet
    /\ nOut' = normalizeGuide(nRaw, nIndex)
    /\ UNCHANGED <<nKind, nRaw, nIndex, repVars, restOfNorm>>

NormalizeProductCall ==
    /\ nKind = "product"
    /\ nOut = NotYet
    /\ nOut' = normalizeProduct(nRaw, nIndex)
    /\ UNCHANGED <<nKind, nRaw, nIndex, repVars, restOfNorm>>

NextNorm == NormalizeHomestayCall \/ NormalizeGuideCall \/ NormalizeProductCall

SpecNorm == InitNorm /\ [][NextNorm]_vars

(***************************************************************************)
(* SpecRepeat: a normalizer called on (nRaw, nIndex), called again on the  *)
(* same arguments, and called on another record at some point around the   *)
(* second call.  The normalizers read their arguments and their module's   *)
(* placeholder array and assign to neither.                                *)
(***************************************************************************)
NormalizeOf(kind, raw, index) ==
    CASE kind = "homestay" -> normalizeHomestay(raw, index)
      [] kind = "guide" -> normalizeGuide(raw, index)
      [] OTHER -> normalizeProduct(raw, index)

\* the records another call of the same normalizer may be given
OtherRecords(kind) ==
    CASE kind = "homestay" -> SampleHomestays
      [] kind = "guide" -> SampleGuides
      [] OTHER -> SampleProducts

\* variant: the call takes its placeholders off the front of the arrays and
\* puts them back at the end
NormalizeOtherCallRotatesPools ==
    /\ nOut # NotYet
    /\ nOther = NotYet
    /\ \E r \in OtherRecords(nKind) : nOther' = NormalizeOf(nKind, r, nIndex + 1)
    /\ pools' = [k \in DOMAIN pools |-> Tail(pools[k]) \o <<Head(pools[k])>>]
    /\ UNCHANGED <<normVars, nAgain, svcVars, gets, calls, sbVars>>

\* the same normalizer is called on another record
NormalizeOtherCall ==
    /\ nOut # NotYet
    /\ nOther = NotYet
    /\ \E r \in OtherRecords(nKind) : nOther' = NormalizeOf(nKind, r, nIndex + 1)
    /\ UNCHANGED <<normVars, nAgain, restOfNorm>>

\* the normalizer is called a second time on the first call's arguments
NormalizeAgainCall ==
    /\ nOut # NotYet
    /\ nAgain = NotYet
    /\ nAgain' = NormalizeOf(nKind, nRaw, nIndex)
    /\ UNCHANGED <<normVars, nOther, restOfNorm>>

NextRepeat ==
    \/ NormalizeHomestayCall
    \/ NormalizeGuideCall
    \/ NormalizeProductCall
    \/ NormalizeOtherCall
    \/ NormalizeAgainCall

SpecRepeat == InitNorm /\ [][NextRepeat]_vars

(***************************************************************************)
(* What the specification says of a raw field, stated without the          *)
(* normalizers' own helpers.                                               *)
(***************************************************************************)
\* the entry is a plain string or a wrapper holding a string under `item`
CarriesString(e) == e.t = "string" \/ (e.t = "object" /\ e.item.t = "string")

EntryText(e) == IF e.t = "string" THEN e.s ELSE e.item.s

HasToken(text, a, b) == \E i \in 1..(Len(text) - 1) : text[i] = a /\ text[i + 1] = b

\* unsplash.com, pexels.com, picsum.photos or placehold.co occurs in the text
ImageHostListed(text) ==
    \/ HasToken(text, "unsplash", ".com")
    \/ HasToken(text, "pexels", ".com")
    \/ HasToken(text, "picsum", ".photos")
    \/ HasToken(text, "placehold", ".co")

AvatarHostListed(text) == ImageHostListed(text) \/ HasToken(text, "randomuser", ".me")

ListedEntry(e) == CarriesString(e) /\ ImageHostListed(EntryText(e))

\* the allow-listed URLs of an image field, in their original order
ListedUrls(f) ==
    IF IsArray(f)
    THEN LET kept == SelectSeq(f.v, ListedEntry)
         IN  [i \in 1..Len(kept) |-> Str(EntryText(kept[i]))]
    ELSE <<>>

CleanEntry(e) == CarriesString(e) /\ ~HasToken(EntryText(e), "error", ":")

\* the strings of a tagged-list field that do not contain "error:", in order
CleanStrings(f) ==
    IF IsArray(f)
    THEN LET kept == SelectSeq(f.v, CleanEntry)
         IN  [i \in 1..Len(kept) |-> Str(EntryText(kept[i]))]
    ELSE <<>>

Returned == nOut # NotYet /\ ~nOut.threw

HasImages == nKind \in {"homestay", "product"}

ImagePool == IF nKind = "homestay" THEN HOMESTAY_PLACEHOLDER_IMAGES ELSE PRODUCT_PLACEHOLDER_IMAGES

(***************************************************************************)
(* SpecPar: NumCalls service calls outstanding at once.  Each call has its *)
(* own `response` local; the calls are invoked, answered and resumed in    *)
(* any order.                                                              *)
(***************************************************************************)
\* the bodies answered to the concurrent calls: one record, or a list
\* holding a record twice (positions 0 and 1)
ParBodies(c) ==
    CASE c.op = "getById" -> {BareRecordBody(r) : r \in SampleRecords(c.svc)}
      [] c.op = "getReviews" -> {BareBody(<<r, r>>) : r \in SampleReviews}
      [] OTHER -> {BareBody(<<r, r>>) : r \in SampleRecords(c.svc)}

InitPar == ParIdle /\ SvcIdle /\ NormIdle /\ RepIdle /\ PoolsLoaded /\ SbUnmounted

\* what a concurrent call leaves alone
restOfPar == <<normVars, svcVars, gets, repVars, pools, sbVars>>

InvokeAt(i) ==
    /\ calls[i].pc = "idle"
    /\ \E c \in Operations :
           calls' = [calls EXCEPT ![i] = [pc |-> "waiting", call |-> c, resp |-> NoBody, ret |-> NotYet]]
    /\ UNCHANGED restOfPar

ReplyAt(i) ==
    /\ calls[i].pc = "waiting"
    /\ \E b \in ParBodies(calls[i].call) :
           calls' = [calls EXCEPT ![i].pc = "replied", ![i].resp = b]
    /\ UNCHANGED restOfPar

\* variant: `response` is one variable shared by the calls of an operation
ResumeAtSharedResponse(i) ==
    /\ calls[i].pc = "replied"
    /\ \E j \in CallIds :
           /\ calls[j].call = calls[i].call
           /\ calls[j].pc \in {"replied", "done"}
           /\ calls' = [calls EXCEPT ![i].pc = "done",
                                     ![i].ret = OpResult(calls[i].call, calls[j].resp)]
    /\ UNCHANGED restOfPar

\* the call continues after its await, with its own response
ResumeAt(i) ==
    /\ calls[i].pc = "replied"
    /\ calls' = [calls EXCEPT ![i].pc = "done",
                              ![i].ret = OpResult(calls[i].call, calls[i].resp)]
    /\ UNCHANGED restOfPar

SettleAt(i) ==
    /\ calls[i].pc = "done"
    /\ calls' = [calls EXCEPT ![i] = IdleCall]
    /\ UNCHANGED restOfPar

InvokeAny == \E i \in CallIds : InvokeAt(i)
ReplyAny == \E i \in CallIds : ReplyAt(i)
ResumeAny == \E i \in CallIds : ResumeAt(i)
SettleAny == \E i \in CallIds : SettleAt(i)

NextPar == InvokeAny \/ ReplyAny \/ ResumeAny \/ SettleAny

SpecPar == InitPar /\ [][NextPar]_vars

(***************************************************************************)
(* SpecSearch: one mounted SearchBar.  The props are `value` (Undefined    *)
(* when the parent does not control the text) and `defaultValue`; the      *)
(* state is internalValue.  A handler runs to its end and the component    *)
(* re-renders before the next event, so searchValue is always computed     *)
(* from the current props and state.  onChange and onSearch are given; the *)
(* model keeps the argument of their last invocation.  The parent keeps    *)
(* the bar controlled or uncontrolled for as long as it is mounted.        *)
(***************************************************************************)
InitSearch == SbUnmounted /\ SvcIdle /\ NormIdle /\ RepIdle /\ PoolsLoaded /\ ParIdle

\* what the SearchBar leaves alone
restOfSearch == <<normVars, svcVars, gets, repVars, pools, calls>>

\* const searchValue = value !== undefined ? value : internalValue
searchValue == IF sbValue # Undefined THEN sbValue ELSE sbInternal

\* first render: useState(defaultValue)
Mount ==
    /\ sbEvent = "none"
    /\ \E v \in {Undefined} \cup {Str(t) : t \in Texts} : sbValue' = v
    /\ \E d \in Texts : sbDefault' = Str(d) /\ sbInternal' = Str(d)
    /\ sbEvent' = "mount"
    /\ UNCHANGED <<sbTyped, sbChanged, sbSearched, restOfSearch>>

\* the parent of a controlled bar renders it with another value
ParentSetsValue ==
    /\ sbEvent # "none"
    /\ sbValue # Undefined
    /\ \E t \in Texts : sbValue' = Str(t)
    /\ sbEvent' = "props"
    /\ UNCHANGED <<sbDefault, sbInternal, sbTyped, sbChanged, sbSearched, restOfSearch>>

\* variant: the state is set whether or not the parent controls the text
handleChangeAlwaysSetsState ==
    /\ sbEvent # "none"
    /\ \E newValue \in Texts :
           /\ sbTyped' = Str(newValue)
           /\ sbInternal' = Str(newValue)
           /\ sbChanged' = Str(newValue)
    /\ sbEvent' = "change"
    /\ UNCHANGED <<sbValue, sbDefault, sbSearched, restOfSearch>>

\* the user edits the input: the change event carries the new text
handleChange ==
    /\ sbEvent # "none"
    /\ \E newValue \in Texts :
           /\ sbTyped' = Str(newValue)
           /\ sbInternal' = IF sbValue = Undefined THEN Str(newValue) ELSE sbInternal
           /\ sbChanged' = Str(newValue)
    /\ sbEvent' = "change"
    /\ UNCHANGED <<sbValue, sbDefault, sbSearched, restOfSearch>>

\* the form is submitted
handleSubmit ==
    /\ sbEvent # "none"
    /\ sbSearched' = searchValue
    /\ sbEvent' = "submit"
    /\ UNCHANGED <<sbValue, sbDefault, sbInternal, sbTyped, sbChanged, restOfSearch>>

\* a key goes down in the input; only Enter searches
handleKeyDown ==
    /\ sbEvent # "none"
    /\ \E key \in {"Enter", "a"} :
           IF key = "Enter"
           THEN /\ sbSearched' = searchValue
                /\ sbEvent' = "submit"
                /\ UNCHANGED <<sbValue, sbDefault, sbInternal, sbTyped, sbChanged, restOfSearch>>
           ELSE UNCHANGED vars

NextSearch == Mount \/ ParentSetsValue \/ handleChange \/ handleSubmit \/ handleKeyDown

SpecSearch == InitSearch /\ [][NextSearch]_vars

(***************************************************************************)
(* Claims on the normalizers, checked under SpecNorm.                      *)
(***************************************************************************)
\* C1: normalizeHomestay, normalizeGuide and normalizeProduct never raise,
\* whatever the raw record and the index.
C1_NormalizersNeverRaise == ~nOut.threw

\* C2: for homestays and products, when the raw image list holds at least one
\* allow-listed URL, the normalized images are exactly the allow-listed URLs
\* in their original order.
C2_ListedImagesKept ==
    (HasImages /\ Returned /\ ListedUrls(nRaw.images) # <<>>)
        => nOut.value.images = ListedUrls(nRaw.images)

\* a product whose two images are a rejected URL followed by a wrapped
\* allow-listed one: only the second is kept
C2_Witness ==
    /\ nKind = "product"
    /\ Returned
    /\ nRaw.images = ArrayField(<<PlainEntry(UrlBadHost), Wrapper(Str(UrlPexels))>>)
    /\ nOut.value.images = <<Str(UrlPexels)>>

\* C3: for homestays and products, when the raw image list holds no
\* allow-listed URL, the normalized images are exactly
\* [pool[i % n], pool[(i+1) % n]] with n = 10 for homestays and 8 for products.
C3_PlaceholderPair ==
    (HasImages /\ Returned /\ ListedUrls(nRaw.images) = <<>>)
        => LET n == IF nKind = "homestay" THEN 10 ELSE 8
           IN  /\ Len(ImagePool) = n
               /\ nOut.value.images =
                      <<ImagePool[(nIndex % n) + 1], ImagePool[((nIndex + 1) % n) + 1]>>

\* a homestay without images at index 9: the second placeholder wraps to pool[0]
C3_Witness ==
    /\ nKind = "homestay"
    /\ Returned
    /\ nIndex = 9
    /\ nRaw.images = AbsentField
    /\ nOut.value.images = <<HOMESTAY_PLACEHOLDER_IMAGES[10], HOMESTAY_PLACEHOLDER_IMAGES[1]>>

\* C4: every normalized tagged list (amenities, houseRules, languages,
\* specializations, materials) is a flat list of strings: the plain strings
\* and the wrappers' item strings in source order, without those containing
\* "error:"; the empty list when the field is absent or not a list.
C4_TaggedListsFlattened ==
    Returned =>
        CASE nKind = "homestay" ->
                 /\ nOut.value.amenities = CleanStrings(nRaw.amenities)
                 /\ nOut.value.houseRules = CleanStrings(nRaw.houseRules)
          [] nKind = "guide" ->
                 /\ nOut.value.languages = CleanStrings(nRaw.languages)
                 /\ nOut.value.specializations = CleanStrings(nRaw.specializations)
          [] OTHER -> nOut.value.materials = CleanStrings(nRaw.materials)

\* C5: a guide's normalized avatar is the raw avatar when that is a string
\* containing an allow-listed host (randomuser.me included), and otherwise the
\* placeholder avatarPool[index % 6].
C5_AvatarResolved ==
    (nKind = "guide" /\ Returned)
        => /\ Len(GUIDE_PLACEHOLDER_AVATARS) = 6
           /\ nOut.value.avatar =
                  IF nRaw.avatar.t = "string" /\ AvatarHostListed(nRaw.avatar.s)
                  THEN nRaw.avatar
                  ELSE GUIDE_PLACEHOLDER_AVATARS[(nIndex % 6) + 1]

\* a guide without an avatar at index 5 gets avatarPool[5]
C5_Witness ==
    /\ nKind = "guide"
    /\ Returned
    /\ nIndex = 5
    /\ nRaw.avatar = Undefined
    /\ nOut.value.avatar = GUIDE_PLACEHOLDER_AVATARS[6]

\* C6: a homestay's normalized propertyType is one of 'entire', 'private',
\* 'shared': the raw value when that is one of the three, 'entire' otherwise.
C6_PropertyTypeCoerced ==
    (nKind = "homestay" /\ Returned)
        => LET tokens == {Str(<<"entire">>), Str(<<"private">>), Str(<<"shared">>)}
           IN  /\ nOut.value.propertyType \in tokens
               /\ nRaw.propertyType \in tokens => nOut.value.propertyType = nRaw.propertyType
               /\ nRaw.propertyType \notin tokens => nOut.value.propertyType = Str(<<"entire">>)

\* an unrecognised raw value is replaced by the default
C6_Witness ==
    /\ nKind = "homestay"
    /\ Returned
    /\ nRaw.propertyType = Str(<<"weird">>)
    /\ nOut.value.propertyType = Str(<<"entire">>)

(***************************************************************************)
(* Claims on the list operations, checked under Spec.                      *)
(***************************************************************************)
Done(op) == pc = "done" /\ call.op = op /\ ~ret.threw

\* the backend's record list, whichever shape carried it
BackendList == IF resp.t = "array" THEN resp.v ELSE resp.data

\* the normalization of one raw record of the called service
NormalizedAt(raw, index) ==
    CASE call.svc = "homestays" -> normalizeHomestay(raw, index).value
      [] call.svc = "guides" -> normalizeGuide(raw, index).value
      [] OTHER -> normalizeProduct(raw, index).value

\* C7: getAll on a bare list of length k returns data of length k with
\* meta.total = k, meta.totalPages = 1, meta.page = 1 and meta.limit = k.
C7_BareListEnvelope ==
    (Done("getAll") /\ resp.t = "array")
        => LET k == Len(resp.v)
           IN  /\ Len(ret.value.data) = k
               /\ ret.value.meta.total = k
               /\ ret.value.meta.totalPages = 1
               /\ ret.value.meta.page = 1
               /\ ret.value.meta.limit = k

\* guides.getAll answered with a bare list of two records
C7_Witness ==
    /\ Done("getAll")
    /\ call.svc = "guides"
    /\ resp.t = "array"
    /\ Len(resp.v) = 2
    /\ ret.value.meta = [total |-> 2, page |-> 1, limit |-> 2, totalPages |-> 1]

\* C8 as written: for a bare list, total, page, limit and totalPages of the
\* synthesized metadata all equal the list length.
C8_AllEqualLength ==
    (Done("getAll") /\ resp.t = "array")
        => LET k == Len(resp.v)
           IN  /\ ret.value.meta.total = k
               /\ ret.value.meta.page = k
               /\ ret.value.meta.limit = k
               /\ ret.value.meta.totalPages = k

\* C8 amended: for a bare list, total and limit of the synthesized metadata
\* equal the list length, while page and totalPages are 1 (so the four agree
\* only for a list of one record).
C8_LengthAndFirstPage ==
    (Done("getAll") /\ resp.t = "array")
        => LET k == Len(resp.v)
               m == ret.value.meta
           IN  /\ m.total = k /\ m.limit = k
               /\ m.page = 1 /\ m.totalPages = 1
               /\ (m.page = k /\ m.totalPages = k) <=> k = 1

\* products.getAll answered with the empty bare list: page 1 of 1, total 0
C8_Witness ==
    /\ Done("getAll")
    /\ call.svc = "products"
    /\ resp.t = "array"
    /\ resp.v = <<>>
    /\ ret.value.meta = [total |-> 0, page |-> 1, limit |-> 0, totalPages |-> 1]

\* C9: getAll on an enveloped response returns the backend's meta unchanged,
\* even when it disagrees with the length of data, and the normalized list
\* as data.
C9_EnvelopeMetaPassedThrough ==
    (Done("getAll") /\ resp.t = "object")
        => /\ ret.value.meta = resp.meta
           /\ ret.value.data =
                  [i \in 1..Len(resp.data) |-> NormalizedAt(resp.data[i], i - 1)]

\* an envelope announcing 25 records and carrying two
C9_Witness ==
    /\ Done("getAll")
    /\ call.svc = "homestays"
    /\ resp.t = "object"
    /\ Len(resp.data) = 2
    /\ resp.meta.total = 25
    /\ ret.value.meta.total = 25
    /\ Len(ret.value.data) = 2

\* C10: getAll, getFeatured and getByCategory, for both response shapes,
\* return a list as long as the backend's whose element at position i is the
\* normalization of the i-th raw record with index i; getFeatured and
\* getByCategory return that list itself, without an envelope.
C10_ListNormalizedInOrder ==
    LET expected == [i \in 1..Len(BackendList) |-> NormalizedAt(BackendList[i], i - 1)]
    IN  /\ Done("getAll") => (Len(ret.value.data) = Len(BackendList) /\ ret.value.data = expected)
        /\ (Done("getFeatured") \/ Done("getByCategory"))
               => (Len(ret.value) = Len(BackendList) /\ ret.value = expected)

\* homestays.getFeatured on two records without usable images: the second
\* record's placeholders are those of position 1
C10_Witness ==
    /\ Done("getFeatured")
    /\ call.svc = "homestays"
    /\ Len(BackendList) = 2
    /\ ListedUrls(BackendList[1].images) = <<>>
    /\ ListedUrls(BackendList[2].images) = <<>>
    /\ ret.value[1].images = <<HOMESTAY_PLACEHOLDER_IMAGES[1], HOMESTAY_PLACEHOLDER_IMAGES[2]>>
    /\ ret.value[2].images = <<HOMESTAY_PLACEHOLDER_IMAGES[2], HOMESTAY_PLACEHOLDER_IMAGES[3]>>

\* every entry of a list of URLs is a string naming an allow-listed image host
AllImageHostsListed(urls) ==
    \A i \in 1..Len(urls) : urls[i].t = "string" /\ ImageHostListed(urls[i].s)

\* C15: every normalized homestay and product has a non-empty `images` whose
\* URLs all pass the image allow-list, every normalized guide has a string
\* `avatar` that passes the guides' allow-list, and every URL of the three
\* placeholder pools is itself allow-listed.
C15_ImageUrlsAllowListed ==
    /\ (Returned /\ HasImages)
           => (Len(nOut.value.images) > 0 /\ AllImageHostsListed(nOut.value.images))
    /\ (Returned /\ nKind = "guide")
           => (nOut.value.avatar.t = "string" /\ AvatarHostListed(nOut.value.avatar.s))
    /\ AllImageHostsListed(pools.homestay)
    /\ AllImageHostsListed(pools.product)
    /\ \A i \in 1..Len(pools.guide) :
           pools.guide[i].t = "string" /\ AvatarHostListed(pools.guide[i].s)

\* a product whose only image names a host outside the list, normalized at
\* index 7: both placeholders stand in for it
C15_Witness ==
    /\ nKind = "product"
    /\ Returned
    /\ nIndex = 7
    /\ nRaw.images = ArrayField(<<PlainEntry(UrlBadHost)>>)
    /\ nOut.value.images = <<PRODUCT_PLACEHOLDER_IMAGES[8], PRODUCT_PLACEHOLDER_IMAGES[1]>>

C16_CallsIndependent ==
    /\ PoolsLoaded
    /\ \A i \in CallIds :
           calls[i].pc = "done" => calls[i].ret = OpResult(calls[i].call, calls[i].resp)
    /\ \A i, j \in CallIds :
           (calls[i].pc = "done" /\ calls[j].pc = "done"
               /\ calls[i].call = calls[j].call /\ calls[i].resp = calls[j].resp)
               => calls[i].ret = calls[j].ret

\* two homestays.getById calls outstanding together, answered with different
\* records: each returned its own record
C16_Witness ==
    /\ calls[1].pc = "done" /\ calls[2].pc = "done"
    /\ calls[1].call = [svc |-> "homestays", op |-> "getById"]
    /\ calls[2].call = calls[1].call
    /\ calls[1].resp.self.id = Num(<<"1">>)
    /\ calls[2].resp.self.id = Num(<<"7">>)
    /\ calls[1].ret.value.id = Str(<<"1">>)
    /\ calls[2].ret.value.id = Str(<<"7">>)

(***************************************************************************)
(* Claims on getById, getReviews and transport failures, checked under     *)
(* Spec.                                                                   *)
(***************************************************************************)
\* the response carried a record under `data`
WrappedRecord == resp.hasData /\ resp.data # NullRecord

\* the first placeholder of the called service, as the module defines it
FirstPlaceholder ==
    CASE call.svc = "homestays" -> HOMESTAY_PLACEHOLDER_IMAGES[1]
      [] call.svc = "guides" -> GUIDE_PLACEHOLDER_AVATARS[1]
      [] OTHER -> PRODUCT_PLACEHOLDER_IMAGES[1]

\* C11: getById returns the normalization at index 0 of the record under
\* `data` when the response wraps a record, and of the response body itself
\* when it is a bare record; a record without a usable image or avatar
\* therefore gets the first placeholder of its pool.
C11_ByIdNormalizesTheRecord ==
    Done("getById")
        => /\ WrappedRecord => ret.value = NormalizedAt(resp.data, 0)
           /\ ~resp.hasData => ret.value = NormalizedAt(resp.self, 0)
           /\ LET r == IF WrappedRecord THEN resp.data ELSE resp.self
              IN  /\ (call.svc # "guides" /\ ListedUrls(r.images) = <<>>)
                         => ret.value.images[1] = FirstPlaceholder
                  /\ (call.svc = "guides" /\ ~(r.avatar.t = "string" /\ AvatarHostListed(r.avatar.s)))
                         => ret.value.avatar = FirstPlaceholder

\* products.getById answered with {data: record}: the record's one listed
\* image is what the product keeps
C11_Witness ==
    /\ Done("getById")
    /\ call.svc = "products"
    /\ WrappedRecord
    /\ resp.data.id = Num(<<"1">>)
    /\ ret.value.images = <<Str(UrlPicsum)>>

\* C12: getReviews does not touch the reviews: for a bare list of k reviews
\* `data` is the backend's list and meta is {total: k, page: 1, limit: k,
\* totalPages: 1}; an enveloped response is returned as it came, data and
\* meta.
C12_ReviewsUnmodified ==
    Done("getReviews")
        => /\ resp.t = "array"
               => /\ ret.value.data = resp.v
                  /\ ret.value.meta.total = Len(resp.v)
                  /\ ret.value.meta.page = 1
                  /\ ret.value.meta.limit = Len(resp.v)
                  /\ ret.value.meta.totalPages = 1
           /\ resp.t = "object"
               => /\ ret.value = resp
                  /\ ret.value.data = resp.data
                  /\ ret.value.meta = resp.meta

\* guides.getReviews answered with an envelope of two reviews whose meta
\* reports another total: the envelope comes back with that meta
C12_Witness ==
    /\ Done("getReviews")
    /\ call.svc = "guides"
    /\ resp.t = "object"
    /\ Len(resp.data) = 2
    /\ resp.meta.total # 2
    /\ ret.value.meta = resp.meta

\* C13: every operation issues exactly one GET per call; when the transport
\* fails, the call fails with the transport's failure value itself, with no
\* second request and no normalized result.
C13_OneGetFailurePropagates ==
    /\ pc = "idle" => gets = 0
    /\ pc # "idle" => gets = 1
    /\ pc = "failed" => ret = NotYet
    /\ (pc = "done" /\ resp.t = "error") => (ret.threw /\ ret.value = resp.err)
    /\ (pc = "done" /\ ret.threw /\ ret.value \in TransportErrors) => resp.t = "error"

\* products.getByCategory whose request met an HTTP 500: the call rejected
\* with that error after one request
C13_Witness ==
    /\ pc = "done"
    /\ call = [svc |-> "products", op |-> "getByCategory"]
    /\ resp.t = "error"
    /\ resp.err = [t |-> "HttpError", status |-> 500]
    /\ ret = Rejection([t |-> "HttpError", status |-> 500])
    /\ gets = 1

(***************************************************************************)
(* Claims on the SearchBar, checked under SpecSearch.                      *)
(***************************************************************************)
\* C17: over any sequence of change and submit events, an uncontrolled
\* SearchBar (`value` undefined) passes to onSearch the text of the most
\* recent change event, or defaultValue when there was none; a controlled
\* one passes the current `value` prop and never updates its internal state
\* on a change; in both modes every change event invokes onChange with the
\* new text.
C17_SearchTextTracked ==
    /\ (sbEvent = "submit" /\ sbValue = Undefined)
           => sbSearched = IF sbTyped = NoText THEN sbDefault ELSE sbTyped
    /\ (sbEvent = "submit" /\ sbValue # Undefined) => sbSearched = sbValue
    /\ (sbEvent # "none" /\ sbValue # Undefined) => sbInternal = sbDefault
    /\ sbChanged = sbTyped
    /\ sbEvent = "change" => (sbChanged # NoText /\ sbChanged.s \in Texts)

\* a controlled bar showing "ranchi": the user typed "ranchi falls", the
\* parent kept "ranchi", and the submit searched for "ranchi"
C17_Witness ==
    /\ sbEvent = "submit"
    /\ sbValue = Str(<<"ranchi">>)
    /\ sbDefault = Str(<<>>)
    /\ sbTyped = Str(<<"ranchi", " falls">>)
    /\ sbChanged = Str(<<"ranchi", " falls">>)
    /\ sbInternal = Str(<<>>)
    /\ sbSearched = Str(<<"ranchi">>)

====
